---- MODULE Spec2Model ----
(***************************************************************************)
(* ttftree.py: persistent 2-3 finger trees over a pluggable measure.       *)
(*                                                                         *)
(* Every Python value is a record with a type field: PyInt(n) is the       *)
(* integer n, PyTuple(x, y) a pair, IDENTITY the sentinel object, and the  *)
(* trees, digits and nodes are records of their attributes.  A raised      *)
(* exception is the record Raise(kind); every constructor and loop hands   *)
(* on an exception raised while its arguments were evaluated, as Python    *)
(* does.                                                                   *)
(***************************************************************************)
EXTENDS Integers, Sequences, FiniteSets, TLC

VARIABLES measure, objs, log, rt

vars == <<measure, objs, log, rt>>

(* Bounds of the model. *)
MaxLen == 22
MaxCalls == 2
MaxSeqLen == 6
MaxValue == 2

----------------------------------------------------------------------------
(* Values and exceptions *)

IDENTITY == [type |-> "Identity"]

PyInt(n) == [type |-> "int", v |-> n]

PyTuple(x, y) == [type |-> "tuple", items |-> <<x, y>>]

Raise(kind) == [type |-> "Error", kind |-> kind]

Raised(x) == x.type = "Error"

(* the builtins min and max, of two integers *)
min(x, y) == IF x.v <= y.v THEN x ELSE y

max(x, y) == IF x.v >= y.v THEN x ELSE y

----------------------------------------------------------------------------
(* Measures.  A measure is [kind, depth]: depth 0 is the measure the caller *)
(* gave, depth d > 0 is _NodeMeasure wrapped d times around it.            *)

(* the abstract class itself, nothing overridden *)
Measure == [kind |-> "Measure", depth |-> 0]

MeasureItemCount == [kind |-> "MeasureItemCount", depth |-> 0]

MeasureLastItem == [kind |-> "MeasureLastItem", depth |-> 0]

MeasureMinMax == [kind |-> "MeasureMinMax", depth |-> 0]

NodeMeasure(m) == [kind |-> m.kind, depth |-> m.depth + 1]

(* measure.identity: the class Measure sets no such attribute *)
identity(m) ==
    CASE m.kind = "Measure" -> Raise("AttributeError")
      [] m.kind = "MeasureItemCount" -> PyInt(0)
      [] OTHER -> IDENTITY

Measure_convert(value) == Raise("NotImplementedError")

Measure_operator(a, b) == Raise("NotImplementedError")

MeasureItemCount_convert(value) == PyInt(1)

MeasureItemCount_operator(a, b) == PyInt(a.v + b.v)

MeasureLastItem_convert(value) == value

MeasureLastItem_semigroup_operator(a, b) == b

MeasureWithIdentity_operator(a, b) ==
    IF a = IDENTITY THEN b
    ELSE IF b = IDENTITY THEN a
    ELSE MeasureLastItem_semigroup_operator(a, b)

MeasureMinMax_convert(value) == value

(* a_min, a_max = a: unpacking anything but a pair raises TypeError *)
MeasureMinMax_operator(a, b) ==
    IF a.type = "tuple" /\ b.type = "tuple"
    THEN PyTuple(min(a.items[1], b.items[1]), max(a.items[2], b.items[2]))
    ELSE Raise("TypeError")

convert(m, value) ==
    IF m.depth > 0 THEN value.annotation
    ELSE CASE m.kind = "Measure" -> Measure_convert(value)
           [] m.kind = "MeasureItemCount" -> MeasureItemCount_convert(value)
           [] m.kind = "MeasureLastItem" -> MeasureLastItem_convert(value)
           [] m.kind = "MeasureMinMax" -> MeasureMinMax_convert(value)

operator(m, a, b) ==
    IF Raised(a) THEN a
    ELSE IF Raised(b) THEN b
    ELSE CASE m.kind = "Measure" -> Measure_operator(a, b)
           [] m.kind = "MeasureItemCount" -> MeasureItemCount_operator(a, b)
           [] m.kind = "MeasureLastItem" -> MeasureWithIdentity_operator(a, b)
           [] m.kind = "MeasureMinMax" -> MeasureMinMax_operator(a, b)

map_convert(m, values) == [i \in 1..Len(values) |-> convert(m, values[i])]

(* reduce(f, xs) with no initial value: a left fold, xs[0] for one element *)
RECURSIVE reduce(_, _)
reduce(m, annotations) ==
    IF Len(annotations) = 1 THEN annotations[1]
    ELSE operator(m, reduce(m, SubSeq(annotations, 1, Len(annotations) - 1)),
                  annotations[Len(annotations)])

(* tuple(...) of a generator: the first exception raised while the items  *)
(* are computed leaves the call *)
RECURSIVE FirstRaised(_, _)
FirstRaised(items, i) ==
    IF i > Len(items) THEN [type |-> "tuple", items |-> items]
    ELSE IF Raised(items[i]) THEN items[i]
    ELSE FirstRaised(items, i + 1)

tuple(items) == FirstRaised(items, 1)

(* CompoundMeasure: measures is the sequence of the measures it combines *)
CompoundMeasure_identity(measures) ==
    tuple([i \in 1..Len(measures) |-> identity(measures[i])])

CompoundMeasure_convert(measures, value) ==
    tuple([i \in 1..Len(measures) |-> convert(measures[i], value)])

(* zip() stops at the shortest of its arguments, and raises TypeError for  *)
(* one that cannot be iterated *)
CompoundMeasure_operator(measures, a_values, b_values) ==
    IF Raised(a_values) THEN a_values
    ELSE IF Raised(b_values) THEN b_values
    ELSE IF a_values.type # "tuple" \/ b_values.type # "tuple"
    THEN Raise("TypeError")
    ELSE LET n == IF Len(a_values.items) < Len(b_values.items)
                  THEN Len(a_values.items) ELSE Len(b_values.items)
             shortest == IF Len(measures) < n THEN Len(measures) ELSE n
         IN tuple([i \in 1..shortest |->
                      operator(measures[i], a_values.items[i],
                               b_values.items[i])])

----------------------------------------------------------------------------
(* Node and Digit *)

Node(m, values) ==
    IF Len(values) \notin {2, 3} THEN Raise("Exception")
    ELSE LET annotation == reduce(m, map_convert(m, values))
         IN IF Raised(annotation) THEN annotation
            ELSE [type |-> "Node", values |-> values, measure |-> m,
                  annotation |-> annotation]

Digit(m, values) ==
    IF Len(values) \notin {1, 2, 3, 4} THEN Raise("Exception")
    ELSE LET annotation == reduce(m, map_convert(m, values))
         IN IF Raised(annotation) THEN annotation
            ELSE [type |-> "Digit", values |-> values, measure |-> m,
                  annotation |-> annotation]

(* self[first:last] with 1-based inclusive bounds *)
Digit_getslice(self, first, last) ==
    Digit(self.measure, SubSeq(self.values, first, last))

Digit_add(self, other) == Digit(self.measure, self.values \o other.values)

----------------------------------------------------------------------------
(* Trees *)

Empty(m) ==
    LET annotation == identity(m)
    IN IF Raised(annotation) THEN annotation
       ELSE [type |-> "Empty", measure |-> m, annotation |-> annotation]

Single(m, item) ==
    LET annotation == convert(m, item)
    IN IF Raised(annotation) THEN annotation
       ELSE [type |-> "Single", measure |-> m, annotation |-> annotation,
             item |-> item]

(* Deep.__init__ leaving the spine out of the annotation *)
Deep_ForgetsSpine(m, left, spine, right) ==
    IF Raised(left) THEN left
    ELSE IF Raised(spine) THEN spine
    ELSE IF Raised(right) THEN right
    ELSE LET annotation == operator(m, left.annotation, right.annotation)
         IN IF Raised(annotation) THEN annotation
            ELSE [type |-> "Deep", measure |-> m, annotation |-> annotation,
                  left |-> left, spine |-> spine, right |-> right]

Deep(m, left, spine, right) ==
    IF Raised(left) THEN left
    ELSE IF Raised(spine) THEN spine
    ELSE IF Raised(right) THEN right
    ELSE LET annotation ==
                 operator(m, operator(m, left.annotation, spine.annotation),
                          right.annotation)
         IN IF Raised(annotation) THEN annotation
            ELSE [type |-> "Deep", measure |-> m, annotation |-> annotation,
                  left |-> left, spine |-> spine, right |-> right]

is_empty(tree) == tree.type = "Empty"

----------------------------------------------------------------------------
(* The deque operations.  An operation named for a class (Deep_add_first)  *)
(* is that class's method; the operation without a class (add_first) is    *)
(* the call tree.add_first(...), dispatched on the receiver's class.       *)

Empty_get_first(self) == Raise("TreeIsEmpty")

Single_get_first(self) == self.item

Deep_get_first(self) == self.left.values[1]

get_first(tree) ==
    CASE tree.type = "Empty" -> Empty_get_first(tree)
      [] tree.type = "Single" -> Single_get_first(tree)
      [] tree.type = "Deep" -> Deep_get_first(tree)

Empty_get_last(self) == Raise("TreeIsEmpty")

Single_get_last(self) == self.item

Deep_get_last(self) == self.right.values[Len(self.right.values)]

get_last(tree) ==
    CASE tree.type = "Empty" -> Empty_get_last(tree)
      [] tree.type = "Single" -> Single_get_last(tree)
      [] tree.type = "Deep" -> Deep_get_last(tree)

RECURSIVE add_first(_, _)

Empty_add_first(self, item) == Single(self.measure, item)

Single_add_first(self, new_item) ==
    Deep(self.measure, Digit(self.measure, <<new_item>>),
         Empty(NodeMeasure(self.measure)), Digit(self.measure, <<self.item>>))

(* Deep.add_first with the two elements of the new left digit exchanged *)
Deep_add_first_Swapped(self, new_item) ==
    IF Len(self.left.values) < 4
    THEN Deep(self.measure,
              Digit_add(self.left, Digit(self.measure, <<new_item>>)),
              self.spine, self.right)
    ELSE LET node == Node(self.measure, <<self.left.values[2],
                                          self.left.values[3],
                                          self.left.values[4]>>)
         IN Deep(self.measure,
                 Digit(self.measure, <<self.left.values[1], new_item>>),
                 add_first(self.spine, node), self.right)

Deep_add_first(self, new_item) ==
    IF Len(self.left.values) < 4
    THEN Deep(self.measure,
              Digit_add(Digit(self.measure, <<new_item>>), self.left),
              self.spine, self.right)
    ELSE LET node == Node(self.measure, <<self.left.values[2],
                                          self.left.values[3],
                                          self.left.values[4]>>)
         IN Deep(self.measure,
                 Digit(self.measure, <<new_item, self.left.values[1]>>),
                 add_first(self.spine, node), self.right)

add_first(tree, item) ==
    CASE tree.type = "Empty" -> Empty_add_first(tree, item)
      [] tree.type = "Single" -> Single_add_first(tree, item)
      [] tree.type = "Deep" -> Deep_add_first(tree, item)

RECURSIVE add_last(_, _)

Empty_add_last(self, item) == Single(self.measure, item)

Single_add_last(self, new_item) ==
    Deep(self.measure, Digit(self.measure, <<self.item>>),
         Empty(NodeMeasure(self.measure)), Digit(self.measure, <<new_item>>))

(* Deep.add_last pushing the last three elements of a full right digit    *)
(* into the spine instead of the first three *)
Deep_add_last_Reordered(self, new_item) ==
    IF Len(self.right.values) < 4
    THEN Deep(self.measure, self.left, self.spine,
              Digit_add(self.right, Digit(self.measure, <<new_item>>)))
    ELSE LET node == Node(self.measure, <<self.right.values[2],
                                          self.right.values[3],
                                          self.right.values[4]>>)
         IN Deep(self.measure, self.left, add_last(self.spine, node),
                 Digit(self.measure, <<self.right.values[1], new_item>>))

Deep_add_last(self, new_item) ==
    IF Len(self.right.values) < 4
    THEN Deep(self.measure, self.left, self.spine,
              Digit_add(self.right, Digit(self.measure, <<new_item>>)))
    ELSE LET node == Node(self.measure, <<self.right.values[1],
                                          self.right.values[2],
                                          self.right.values[3]>>)
         IN Deep(self.measure, self.left, add_last(self.spine, node),
                 Digit(self.measure, <<self.right.values[4], new_item>>))

add_last(tree, item) ==
    CASE tree.type = "Empty" -> Empty_add_last(tree, item)
      [] tree.type = "Single" -> Single_add_last(tree, item)
      [] tree.type = "Deep" -> Deep_add_last(tree, item)

RECURSIVE without_first(_)

Empty_without_first(self) == Raise("TreeIsEmpty")

Single_without_first(self) == Empty(self.measure)

(* Deep.without_first without the case of a right digit of one item *)
Deep_without_first_NoSingle(self) ==
    IF Len(self.left.values) > 1
    THEN Deep(self.measure,
              Digit_getslice(self.left, 2, Len(self.left.values)),
              self.spine, self.right)
    ELSE IF ~is_empty(self.spine)
    THEN Deep(self.measure, Digit(self.measure, get_first(self.spine).values),
              without_first(self.spine), self.right)
    ELSE Deep(self.measure, Digit_getslice(self.right, 1, 1), self.spine,
              Digit_getslice(self.right, 2, Len(self.right.values)))

Deep_without_first(self) ==
    IF Len(self.left.values) > 1
    THEN Deep(self.measure,
              Digit_getslice(self.left, 2, Len(self.left.values)),
              self.spine, self.right)
    ELSE IF ~is_empty(self.spine)
    THEN Deep(self.measure, Digit(self.measure, get_first(self.spine).values),
              without_first(self.spine), self.right)
    ELSE IF Len(self.right.values) = 1
    THEN Single(self.measure, self.right.values[1])
    ELSE Deep(self.measure, Digit_getslice(self.right, 1, 1), self.spine,
              Digit_getslice(self.right, 2, Len(self.right.values)))

without_first(tree) ==
    CASE tree.type = "Empty" -> Empty_without_first(tree)
      [] tree.type = "Single" -> Single_without_first(tree)
      [] tree.type = "Deep" -> Deep_without_first(tree)

RECURSIVE without_last(_)

(* Empty.without_last answering the empty tree instead of raising *)
Empty_without_last_Self(self) == self

Empty_without_last(self) == Raise("TreeIsEmpty")

Single_without_last(self) == Empty(self.measure)

(* Deep.without_last refilling the right digit from the first node of    *)
(* the spine instead of the last *)
Deep_without_last_PullsFirst(self) ==
    IF Len(self.right.values) > 1
    THEN Deep(self.measure, self.left, self.spine,
              Digit_getslice(self.right, 1, Len(self.right.values) - 1))
    ELSE IF ~is_empty(self.spine)
    THEN Deep(self.measure, self.left, without_last(self.spine),
              Digit(self.measure, get_first(self.spine).values))
    ELSE IF Len(self.left.values) = 1
    THEN Single(self.measure, self.left.values[1])
    ELSE Deep(self.measure,
              Digit_getslice(self.left, 1, Len(self.left.values) - 1),
              self.spine,
              Digit_getslice(self.left, Len(self.left.values),
                             Len(self.left.values)))

Deep_without_last(self) ==
    IF Len(self.right.values) > 1
    THEN Deep(self.measure, self.left, self.spine,
              Digit_getslice(self.right, 1, Len(self.right.values) - 1))
    ELSE IF ~is_empty(self.spine)
    THEN Deep(self.measure, self.left, without_last(self.spine),
              Digit(self.measure, get_last(self.spine).values))
    ELSE IF Len(self.left.values) = 1
    THEN Single(self.measure, self.left.values[1])
    ELSE Deep(self.measure,
              Digit_getslice(self.left, 1, Len(self.left.values) - 1),
              self.spine,
              Digit_getslice(self.left, Len(self.left.values),
                             Len(self.left.values)))

without_last(tree) ==
    CASE tree.type = "Empty" -> Empty_without_last(tree)
      [] tree.type = "Single" -> Single_without_last(tree)
      [] tree.type = "Deep" -> Deep_without_last(tree)

(* to_tree: the for loop from position i on, then the whole function *)
RECURSIVE to_tree_for(_, _, _)
to_tree_for(tree, sequence, i) ==
    IF i > Len(sequence) THEN tree
    ELSE LET next == add_last(tree, sequence[i])
         IN IF Raised(next) THEN next ELSE to_tree_for(next, sequence, i + 1)

to_tree(m, sequence) ==
    LET tree == Empty(m)
    IN IF Raised(tree) THEN tree ELSE to_tree_for(tree, sequence, 1)

(* list(value_iterator(tree)): the values yielded, and the exception that  *)
(* ended the generator ("" when it ended by itself)                        *)
RECURSIVE value_iterator_while(_, _)
value_iterator_while(tree, yielded) ==
    IF Raised(tree) THEN [values |-> yielded, raised |-> tree.kind]
    ELSE IF is_empty(tree) THEN [values |-> yielded, raised |-> ""]
    ELSE value_iterator_while(without_first(tree),
                              Append(yielded, get_first(tree)))

value_iterator(tree) == value_iterator_while(tree, <<>>)

----------------------------------------------------------------------------
(* Concatenation *)

RECURSIVE append(_, _)
RECURSIVE prepend(_, _)

Empty_prepend(self, other) == other

Empty_append(self, other) == other

Single_prepend(self, other) == add_last(other, self.item)

Single_append(self, other) == add_first(other, self.item)

Deep_prepend(self, other) == append(other, self)

(* the while loop of _fold_up taking two items whenever more than three   *)
(* remain *)
RECURSIVE Deep_fold_up_while_TwoFirst(_, _, _)
Deep_fold_up_while_TwoFirst(self, middle_items, spine) ==
    IF Raised(spine) THEN spine
    ELSE IF middle_items = <<>> THEN spine
    ELSE IF Len(middle_items) # 3
    THEN IF Len(middle_items) < 2 THEN Raise("IndexError")
         ELSE Deep_fold_up_while_TwoFirst(
                  self, SubSeq(middle_items, 3, Len(middle_items)),
                  add_last(spine, Node(self.measure,
                                       <<middle_items[1], middle_items[2]>>)))
    ELSE Deep_fold_up_while_TwoFirst(
             self, SubSeq(middle_items, 4, Len(middle_items)),
             add_last(spine, Node(self.measure,
                                  <<middle_items[1], middle_items[2],
                                    middle_items[3]>>)))

(* the while loop of _fold_up: Nodes of 2 or 3 of middle_items pushed onto *)
(* spine; middle_items[2] of a one-item list raises IndexError             *)
RECURSIVE Deep_fold_up_while(_, _, _)
Deep_fold_up_while(self, middle_items, spine) ==
    IF Raised(spine) THEN spine
    ELSE IF middle_items = <<>> THEN spine
    ELSE IF Len(middle_items) = 2 \/ Len(middle_items) = 4
    THEN Deep_fold_up_while(
             self, SubSeq(middle_items, 3, Len(middle_items)),
             add_last(spine, Node(self.measure,
                                  <<middle_items[1], middle_items[2]>>)))
    ELSE IF Len(middle_items) < 3 THEN Raise("IndexError")
    ELSE Deep_fold_up_while(
             self, SubSeq(middle_items, 4, Len(middle_items)),
             add_last(spine, Node(self.measure,
                                  <<middle_items[1], middle_items[2],
                                    middle_items[3]>>)))

(* Deep._fold_up joining the spines without the digits between them *)
Deep_fold_up_DropsMiddle(self, left_tree, right_tree) ==
    append(left_tree.spine, right_tree.spine)

Deep_fold_up(self, left_tree, right_tree) ==
    LET middle_items == left_tree.right.values \o right_tree.left.values
        spine == Deep_fold_up_while(self, middle_items, left_tree.spine)
    IN IF Raised(spine) THEN spine ELSE append(spine, right_tree.spine)

Deep_append(self, other) ==
    IF other.type # "Deep" THEN prepend(other, self)
    ELSE Deep(self.measure, self.left, Deep_fold_up(self, self, other),
              other.right)

append(tree, other) ==
    CASE tree.type = "Empty" -> Empty_append(tree, other)
      [] tree.type = "Single" -> Single_append(tree, other)
      [] tree.type = "Deep" -> Deep_append(tree, other)

prepend(tree, other) ==
    CASE tree.type = "Empty" -> Empty_prepend(tree, other)
      [] tree.type = "Single" -> Single_prepend(tree, other)
      [] tree.type = "Deep" -> Deep_prepend(tree, other)

----------------------------------------------------------------------------
(* Partition.  A predicate is the caller's function of an annotation:      *)
(* [kind |-> "gt", k |-> n] is lambda v: v > n, "eq" is v == n, "odd" and  *)
(* "even" test v % 2.  Only "gt" is monotonic along a tree.                *)

Pred(predicate, annotation) ==
    CASE predicate.kind = "gt" -> annotation.v > predicate.k
      [] predicate.kind = "eq" -> annotation.v = predicate.k
      [] predicate.kind = "odd" -> annotation.v % 2 = 1
      [] predicate.kind = "even" -> annotation.v % 2 = 0

(* a tuple of two trees; an exception raised while either was built wins *)
Pair(left, right) ==
    IF Raised(left) THEN left
    ELSE IF Raised(right) THEN right
    ELSE [type |-> "tuple", items |-> <<left, right>>]

(* the while loop of partition_digit: the final split_point (0-based) *)
RECURSIVE partition_digit_while(_, _, _, _)
partition_digit_while(self, split_point, initial_annotation, predicate) ==
    IF split_point < Len(self.values)
    THEN LET current_annotation ==
                 operator(self.measure, initial_annotation,
                          convert(self.measure, self.values[split_point + 1]))
         IN IF Pred(predicate, current_annotation) THEN split_point
            ELSE partition_digit_while(self, split_point + 1,
                                       current_annotation, predicate)
    ELSE split_point

(* partition_digit splitting one element early *)
partition_digit_Early(self, initial_annotation, predicate) ==
    LET split_point ==
            partition_digit_while(self, 0, initial_annotation, predicate)
        early == IF split_point > 0 THEN split_point - 1 ELSE 0
    IN <<SubSeq(self.values, 1, early),
         SubSeq(self.values, early + 1, Len(self.values))>>

(* two tuples of values, either of which may be empty *)
partition_digit(self, initial_annotation, predicate) ==
    LET split_point ==
            partition_digit_while(self, 0, initial_annotation, predicate)
    IN <<SubSeq(self.values, 1, split_point),
         SubSeq(self.values, split_point + 1, Len(self.values))>>

deep_left(m, maybe_left, spine, right) ==
    IF maybe_left = <<>>
    THEN IF is_empty(spine) THEN to_tree(m, right.values)
         ELSE Deep(m, Digit(m, get_first(spine).values), without_first(spine),
                   right)
    ELSE Deep(m, Digit(m, maybe_left), spine, right)

(* deep_right leaving in the spine the node it made the right digit from *)
deep_right_KeepsNode(m, left, spine, maybe_right) ==
    IF maybe_right = <<>>
    THEN IF is_empty(spine) THEN to_tree(m, left.values)
         ELSE Deep(m, left, spine, Digit(m, get_last(spine).values))
    ELSE Deep(m, left, spine, Digit(m, maybe_right))

deep_right(m, left, spine, maybe_right) ==
    IF maybe_right = <<>>
    THEN IF is_empty(spine) THEN to_tree(m, left.values)
         ELSE Deep(m, left, without_last(spine),
                   Digit(m, get_last(spine).values))
    ELSE Deep(m, left, spine, Digit(m, maybe_right))

RECURSIVE partition_with(_, _, _)

Empty_partition_with(self, predicate, initial_annotation) == Pair(self, self)

(* Single.partition_with with the two halves the wrong way round *)
Single_partition_with_Swapped(self, predicate, initial_annotation) ==
    LET annotation == operator(self.measure, initial_annotation,
                               self.annotation)
    IN IF Raised(annotation) THEN annotation
       ELSE IF Pred(predicate, annotation)
       THEN Pair(self, Empty(self.measure))
       ELSE Pair(Empty(self.measure), self)

Single_partition_with(self, predicate, initial_annotation) ==
    LET annotation == operator(self.measure, initial_annotation,
                               self.annotation)
    IN IF Raised(annotation) THEN annotation
       ELSE IF Pred(predicate, annotation)
       THEN Pair(Empty(self.measure), self)
       ELSE Pair(self, Empty(self.measure))

(* the spine branch searching the split node from left_annotation alone,  *)
(* without the annotation of the spine to its left *)
Deep_partition_with_spine_Restarts(self, predicate, left_annotation) ==
    LET halves == partition_with(self.spine, predicate, left_annotation)
    IN IF Raised(halves) THEN halves
       ELSE LET left_spine == halves.items[1]
                split_node == get_first(halves.items[2])
            IN IF Raised(split_node) THEN split_node
               ELSE LET right_spine == without_first(halves.items[2])
                        digits ==
                            partition_digit(
                                Digit(self.measure, split_node.values),
                                left_annotation, predicate)
                    IN IF Raised(right_spine) THEN right_spine
                       ELSE Pair(deep_right(self.measure, self.left,
                                            left_spine, digits[1]),
                                 deep_left(self.measure, digits[2],
                                           right_spine, self.right))

(* the branch taken when the split is somewhere in the spine *)
Deep_partition_with_spine(self, predicate, left_annotation) ==
    LET halves == partition_with(self.spine, predicate, left_annotation)
    IN IF Raised(halves) THEN halves
       ELSE LET left_spine == halves.items[1]
                split_node == get_first(halves.items[2])
            IN IF Raised(split_node) THEN split_node
               ELSE LET right_spine == without_first(halves.items[2])
                        digits ==
                            partition_digit(
                                Digit(self.measure, split_node.values),
                                operator(self.measure, left_annotation,
                                         left_spine.annotation),
                                predicate)
                    IN IF Raised(right_spine) THEN right_spine
                       ELSE Pair(deep_right(self.measure, self.left,
                                            left_spine, digits[1]),
                                 deep_left(self.measure, digits[2],
                                           right_spine, self.right))

Deep_partition_with(self, predicate, initial_annotation) ==
    LET left_annotation == operator(self.measure, initial_annotation,
                                    self.left.annotation)
        spine_annotation == operator(self.measure, left_annotation,
                                     self.spine.annotation)
    IN IF Pred(predicate, left_annotation)
       THEN LET digits == partition_digit(self.left, initial_annotation,
                                          predicate)
            IN Pair(to_tree(self.measure, digits[1]),
                    deep_left(self.measure, digits[2], self.spine,
                              self.right))
       ELSE IF Pred(predicate, spine_annotation)
       THEN Deep_partition_with_spine(self, predicate, left_annotation)
       ELSE LET digits == partition_digit(self.right, spine_annotation,
                                          predicate)
            IN Pair(deep_right(self.measure, self.left, self.spine,
                               digits[1]),
                    to_tree(self.measure, digits[2]))

partition_with(tree, predicate, initial_annotation) ==
    CASE tree.type = "Empty" ->
             Empty_partition_with(tree, predicate, initial_annotation)
      [] tree.type = "Single" ->
             Single_partition_with(tree, predicate, initial_annotation)
      [] tree.type = "Deep" ->
             Deep_partition_with(tree, predicate, initial_annotation)

partition(tree, predicate) ==
    partition_with(tree, predicate, identity(tree.measure))

----------------------------------------------------------------------------
(* The caller.  objs are the trees the caller holds, in the order it got   *)
(* them; log is the calls it has made, each with its arguments (self and   *)
(* other are positions in objs), the exception it raised ("" for none),    *)
(* the value it returned and the positions in objs of the trees it         *)
(* returned.  A call that raises returns nothing.                          *)

Measures == {Measure, MeasureItemCount, MeasureLastItem, MeasureMinMax}

None == [type |-> "NoneType"]

Ramp(n) == [i \in 1..n |-> PyInt(i)]

Scenario == <<PyInt(5), PyInt(1), PyInt(9), PyInt(2)>>

ToTreeInputs == {Ramp(n) : n \in 0..MaxSeqLen} \cup {Scenario}

NewItems == {PyInt(0), PyInt(10)}

(* the tree a caller gets from Empty(m) by add_first of sequence[n], ...,  *)
(* sequence[1] in turn *)
RECURSIVE from_add_first(_, _, _)
from_add_first(tree, sequence, n) ==
    IF n = 0 \/ Raised(tree) THEN tree
    ELSE from_add_first(add_first(tree, sequence[n]), sequence, n - 1)

(* the tree a caller gets by appending the tree of the second half of     *)
(* Ramp(n) to the tree of the first half *)
from_append(m, n) ==
    LET tree == to_tree(m, SubSeq(Ramp(n), 1, n \div 2))
        other == to_tree(m, SubSeq(Ramp(n), (n \div 2) + 1, n))
    IN IF Raised(tree) THEN tree
       ELSE IF Raised(other) THEN other
       ELSE append(tree, other)

(* the trees the caller starts from: the elements 1..n, put together in    *)
(* each of three ways *)
Seeds(m) ==
    {t \in {to_tree(m, Ramp(n)) : n \in 0..MaxLen}
            \cup {from_add_first(Empty(m), Ramp(n), n) : n \in 0..MaxLen}
            \cup {from_append(m, n) : n \in 0..MaxLen} :
       ~Raised(t)}

Size(tree) == Len(value_iterator(tree).values)

Predicates(tree) ==
    {[kind |-> "gt", k |-> k] : k \in 0..(Size(tree) + 1)}
    \cup {[kind |-> "eq", k |-> k] : k \in (Size(tree) - 4)..Size(tree)}
    \cup {[kind |-> "odd", k |-> 0], [kind |-> "even", k |-> 0]}

Call(op, self, other, item, predicate, sequence) ==
    [op |-> op, self |-> self, other |-> other, item |-> item,
     predicate |-> predicate, sequence |-> sequence, raised |-> "",
     value |-> None, rets |-> <<>>]

Idle == [pc |-> "idle"]

Init ==
    /\ measure \in Measures
    /\ \/ \E seed \in Seeds(measure) : objs = <<seed>>
       \/ Seeds(measure) = {} /\ objs = <<>>
    /\ log = <<>>
    /\ rt = Idle

(* a method that returns a tree: the caller holds one tree more, and the   *)
(* trees it held are as they were *)
ReturnsTree(call, result) ==
    IF Raised(result)
    THEN /\ objs' = objs
         /\ log' = Append(log, [call EXCEPT !.raised = result.kind])
    ELSE /\ objs' = Append(objs, result)
         /\ log' = Append(log, [call EXCEPT !.rets = <<Len(objs) + 1>>])

ReturnsValue(call, result) ==
    /\ objs' = objs
    /\ log' = Append(log, IF Raised(result)
                          THEN [call EXCEPT !.raised = result.kind]
                          ELSE [call EXCEPT !.value = result])

ReturnsTuple(call, result) ==
    IF Raised(result)
    THEN /\ objs' = objs
         /\ log' = Append(log, [call EXCEPT !.raised = result.kind])
    ELSE /\ objs' = objs \o result.items
         /\ log' = Append(log, [call EXCEPT
                                   !.rets = <<Len(objs) + 1, Len(objs) + 2>>])

CallToTree(sequence) ==
    /\ Len(log) < MaxCalls
    /\ ReturnsTree(Call("to_tree", 0, 0, None, None, sequence),
                   to_tree(measure, sequence))
    /\ UNCHANGED <<measure, rt>>

CallAddFirst(i, item) ==
    /\ Len(log) < MaxCalls
    /\ ReturnsTree(Call("add_first", i, 0, item, None, <<>>),
                   add_first(objs[i], item))
    /\ UNCHANGED <<measure, rt>>

(* add_last that also writes its result over the receiver *)
CallAddLastInPlace(i, item) ==
    /\ Len(log) < MaxCalls
    /\ LET result == add_last(objs[i], item)
       IN /\ objs' = Append([objs EXCEPT ![i] = result], result)
          /\ log' = Append(log, [Call("add_last", i, 0, item, None, <<>>)
                                    EXCEPT !.rets = <<Len(objs) + 1>>])
    /\ UNCHANGED <<measure, rt>>

CallAddLast(i, item) ==
    /\ Len(log) < MaxCalls
    /\ ReturnsTree(Call("add_last", i, 0, item, None, <<>>),
                   add_last(objs[i], item))
    /\ UNCHANGED <<measure, rt>>

CallWithoutFirst(i) ==
    /\ Len(log) < MaxCalls
    /\ ReturnsTree(Call("without_first", i, 0, None, None, <<>>),
                   without_first(objs[i]))
    /\ UNCHANGED <<measure, rt>>

CallWithoutLast(i) ==
    /\ Len(log) < MaxCalls
    /\ ReturnsTree(Call("without_last", i, 0, None, None, <<>>),
                   without_last(objs[i]))
    /\ UNCHANGED <<measure, rt>>

CallGetFirst(i) ==
    /\ Len(log) < MaxCalls
    /\ ReturnsValue(Call("get_first", i, 0, None, None, <<>>),
                    get_first(objs[i]))
    /\ UNCHANGED <<measure, rt>>

CallGetLast(i) ==
    /\ Len(log) < MaxCalls
    /\ ReturnsValue(Call("get_last", i, 0, None, None, <<>>),
                    get_last(objs[i]))
    /\ UNCHANGED <<measure, rt>>

CallAppend(i, j) ==
    /\ Len(log) < MaxCalls
    /\ ReturnsTree(Call("append", i, j, None, None, <<>>),
                   append(objs[i], objs[j]))
    /\ UNCHANGED <<measure, rt>>

CallPrepend(i, j) ==
    /\ Len(log) < MaxCalls
    /\ ReturnsTree(Call("prepend", i, j, None, None, <<>>),
                   prepend(objs[i], objs[j]))
    /\ UNCHANGED <<measure, rt>>

CallPartition(i) ==
    /\ Len(log) < MaxCalls
    /\ \E predicate \in Predicates(objs[i]) :
           ReturnsTuple(Call("partition", i, 0, None, predicate, <<>>),
                        partition(objs[i], predicate))
    /\ UNCHANGED <<measure, rt>>

Next ==
    \/ \E sequence \in ToTreeInputs : CallToTree(sequence)
    \/ \E i \in 1..Len(objs), item \in NewItems : CallAddFirst(i, item)
    \/ \E i \in 1..Len(objs), item \in NewItems : CallAddLast(i, item)
    \/ \E i \in 1..Len(objs) : CallWithoutFirst(i)
    \/ \E i \in 1..Len(objs) : CallWithoutLast(i)
    \/ \E i \in 1..Len(objs) : CallGetFirst(i)
    \/ \E i \in 1..Len(objs) : CallGetLast(i)
    \/ \E i \in 1..Len(objs), j \in 1..Len(objs) : CallAppend(i, j)
    \/ \E i \in 1..Len(objs), j \in 1..Len(objs) : CallPrepend(i, j)
    \/ \E i \in 1..Len(objs) : CallPartition(i)

Spec == Init /\ [][Next]_vars

----------------------------------------------------------------------------
(* list(value_iterator(to_tree(measure, sequence))), statement by          *)
(* statement.  rt.pc is the statement the caller is at: "to_tree" before   *)
(* line 370, "for" at the loop of to_tree, "while" at the loop of          *)
(* value_iterator, "done" when the generator is exhausted, "raised" when   *)
(* an exception left either function.                                      *)

RECURSIVE SeqsOfLen(_)
SeqsOfLen(n) ==
    IF n = 0 THEN {<<>>}
    ELSE {Append(s, PyInt(v)) : s \in SeqsOfLen(n - 1), v \in 1..MaxValue}

RoundTripInputs ==
    UNION {SeqsOfLen(n) : n \in 0..MaxSeqLen} \cup {Ramp(n) : n \in 0..MaxLen}

RoundTripInit ==
    /\ measure = MeasureItemCount
    /\ objs = <<>>
    /\ log = <<>>
    /\ \E sequence \in RoundTripInputs :
           rt = [pc |-> "to_tree", sequence |-> sequence, i |-> 1,
                 tree |-> None, yielded |-> <<>>]

ToTreeEmpty ==
    /\ rt.pc = "to_tree"
    /\ rt' = [rt EXCEPT !.pc = "for", !.tree = Empty(measure)]
    /\ UNCHANGED <<measure, objs, log>>

ToTreeFor ==
    /\ rt.pc = "for"
    /\ rt.i <= Len(rt.sequence)
    /\ LET tree == add_last(rt.tree, rt.sequence[rt.i])
       IN rt' = IF Raised(tree) THEN [rt EXCEPT !.pc = "raised"]
                ELSE [rt EXCEPT !.tree = tree, !.i = rt.i + 1]
    /\ UNCHANGED <<measure, objs, log>>

ToTreeReturn ==
    /\ rt.pc = "for"
    /\ rt.i > Len(rt.sequence)
    /\ rt' = [rt EXCEPT !.pc = "while"]
    /\ UNCHANGED <<measure, objs, log>>

IteratorYield ==
    /\ rt.pc = "while"
    /\ ~is_empty(rt.tree)
    /\ LET value == get_first(rt.tree)
           tree == without_first(rt.tree)
       IN rt' = IF Raised(value) \/ Raised(tree)
                THEN [rt EXCEPT !.pc = "raised"]
                ELSE [rt EXCEPT !.tree = tree,
                                !.yielded = Append(rt.yielded, value)]
    /\ UNCHANGED <<measure, objs, log>>

IteratorStop ==
    /\ rt.pc = "while"
    /\ is_empty(rt.tree)
    /\ rt' = [rt EXCEPT !.pc = "done"]
    /\ UNCHANGED <<measure, objs, log>>

RoundTripNext ==
    \/ ToTreeEmpty
    \/ ToTreeFor
    \/ ToTreeReturn
    \/ IteratorYield
    \/ IteratorStop

(* The interpreter runs the caller's statements one after another: weak    *)
(* fairness of each.  For the two statements that call into the tree,      *)
(* WF_vars(A) is written out as []<>~ENABLED <<A>>_vars \/ []<><<A>>_vars   *)
(* with ENABLED <<A>>_vars replaced by its value, the guard of A (either   *)
(* statement changes rt whenever its guard holds).                         *)
RoundTripFairness ==
    /\ WF_vars(ToTreeEmpty)
    /\ WF_vars(ToTreeReturn)
    /\ WF_vars(IteratorStop)
    /\ \/ []<>~(rt.pc = "for" /\ rt.i <= Len(rt.sequence))
       \/ []<><<ToTreeFor>>_vars
    /\ \/ []<>~(rt.pc = "while" /\ ~is_empty(rt.tree))
       \/ []<><<IteratorYield>>_vars

SpecRoundTrip ==
    RoundTripInit /\ [][RoundTripNext]_vars /\ RoundTripFairness

----------------------------------------------------------------------------
(* Claims *)

Last == log[Len(log)]

Called(op) == Len(log) > 0 /\ Last.op = op

Items(tree) == value_iterator(tree).values

(* list(value_iterator(tree)) is xs, and nothing was raised *)
Iterates(tree, xs) == value_iterator(tree) = [values |-> xs, raised |-> ""]

(* C1: for every finite sequence xs, the empty one included, traversing    *)
(* to_tree(MEASURE_ITEM_COUNT, xs) with value_iterator ends, having        *)
(* yielded exactly xs in order.                                            *)
C1_RoundTrip ==
    /\ [](rt.pc # "raised")
    /\ [](rt.pc = "done" => rt.yielded = rt.sequence)
    /\ <>(rt.pc = "done")

C1_Witness ==
    /\ rt.pc = "done"
    /\ Len(rt.sequence) = MaxLen
    /\ rt.yielded = rt.sequence

(* the trees the last call returned; the seed before any call *)
NewTrees ==
    IF Len(log) = 0 THEN {1} ELSE {Last.rets[k] : k \in 1..Len(Last.rets)}

(* The contract a measure is to satisfy: identity is neutral for operator, *)
(* operator is associative, and neither raises.  MeasureItemCount and      *)
(* MeasureLastItem satisfy it; MeasureMinMax as written does not.          *)
Annotations(m) ==
    {identity(m)} \cup {convert(m, PyInt(v)) : v \in 1..MaxValue}

MonoidLaws(m) ==
    \A a, b, c \in Annotations(m) :
        /\ ~Raised(operator(m, a, b))
        /\ operator(m, identity(m), a) = a
        /\ operator(m, a, identity(m)) = a
        /\ operator(m, operator(m, a, b), c)
               = operator(m, a, operator(m, b, c))

(* the measures of the model that satisfy the contract *)
LawfulMeasures == {m \in Measures : MonoidLaws(m)}

Fold(m, values) ==
    IF values = <<>> THEN identity(m) ELSE reduce(m, map_convert(m, values))

(* tree's annotation is the fold over its traversal, its digits' and its   *)
(* nodes' annotations are the folds over their values, and so on down the  *)
(* spine, whose elements are the nodes *)
RECURSIVE Coherent(_)
Coherent(tree) ==
    /\ tree.annotation = Fold(tree.measure, Items(tree))
    /\ tree.type = "Deep" =>
           /\ tree.left.annotation = Fold(tree.measure, tree.left.values)
           /\ tree.right.annotation = Fold(tree.measure, tree.right.values)
           /\ LET nodes == Items(tree.spine)
              IN \A k \in 1..Len(nodes) :
                     nodes[k].annotation
                         = Fold(tree.measure, nodes[k].values)
           /\ Coherent(tree.spine)

(* C4: under a measure that satisfies the monoid laws, the annotation of   *)
(* every tree the caller is given is the fold of convert over its          *)
(* traversal, identity for Empty, and the same holds of every nested       *)
(* spine under the node-level measure.                                     *)
C4_AnnotationCoherent ==
    measure \in LawfulMeasures => \A j \in NewTrees : Coherent(objs[j])

C4_Witness ==
    /\ measure \in LawfulMeasures
    /\ Called("add_last")
    /\ objs[Last.rets[1]].type = "Deep"
    /\ objs[Last.rets[1]].spine.type = "Deep"
    /\ objs[Last.rets[1]].spine.spine.type = "Single"
    /\ Coherent(objs[Last.rets[1]])

(* C5: under the counting measure, partition with the predicate            *)
(* count > k gives a left tree of exactly the first min(k, size) elements  *)
(* and a right tree of the rest.                                           *)
C5_PartitionAtCount ==
    (/\ measure = MeasureItemCount
     /\ Called("partition")
     /\ Last.predicate.kind = "gt") =>
        LET xs == Items(objs[Last.self])
            n == IF Last.predicate.k < Len(xs) THEN Last.predicate.k
                 ELSE Len(xs)
        IN /\ Last.raised = ""
           /\ Iterates(objs[Last.rets[1]], SubSeq(xs, 1, n))
           /\ Iterates(objs[Last.rets[2]], SubSeq(xs, n + 1, Len(xs)))

C5_Witness ==
    /\ measure = MeasureItemCount
    /\ Called("partition")
    /\ Last.predicate = [kind |-> "gt", k |-> 12]
    /\ Items(objs[Last.self]) = Ramp(MaxLen)
    /\ Iterates(objs[Last.rets[1]], Ramp(12))
    /\ Len(Items(objs[Last.rets[2]])) = MaxLen - 12

InsertAt(xs, k, v) == SubSeq(xs, 1, k) \o <<v>> \o SubSeq(xs, k + 1, Len(xs))

(* C7: under the counting measure, with (left, right) the partition at     *)
(* count > k, left.add_last(v).append(right) traverses as t with v         *)
(* inserted at position k, at the end when k exceeds the size.             *)
C7_InsertAtPosition ==
    (/\ measure = MeasureItemCount
     /\ Called("partition")
     /\ Last.predicate.kind = "gt") =>
        LET xs == Items(objs[Last.self])
            n == IF Last.predicate.k < Len(xs) THEN Last.predicate.k
                 ELSE Len(xs)
        IN /\ Last.raised = ""
           /\ \A v \in NewItems :
                  Iterates(append(add_last(objs[Last.rets[1]], v),
                                  objs[Last.rets[2]]),
                           InsertAt(xs, n, v))

(* [1..9], k = 4, v = 10 gives [1, 2, 3, 4, 10, 5, 6, 7, 8, 9] *)
C7_Witness ==
    /\ measure = MeasureItemCount
    /\ Called("partition")
    /\ Last.predicate = [kind |-> "gt", k |-> 4]
    /\ Items(objs[Last.self]) = Ramp(9)
    /\ Iterates(append(add_last(objs[Last.rets[1]], PyInt(10)),
                       objs[Last.rets[2]]),
                Ramp(4) \o <<PyInt(10)>>
                    \o [i \in 1..5 |-> PyInt(i + 4)])

(* C8: the tree built from [5, 1, 9, 2] under MeasureMinMax carries the    *)
(* annotation (1, 9).                                                      *)
C8_MinMaxAnnotation ==
    (/\ measure = MeasureMinMax
     /\ Called("to_tree")
     /\ Last.sequence = Scenario) =>
        /\ Last.raised = ""
        /\ objs[Last.rets[1]].annotation = PyTuple(PyInt(1), PyInt(9))

(* C9: get_first, get_last, without_first and without_last raise           *)
(* TreeIsEmpty on the Empty tree, and on a Single or Deep tree they raise  *)
(* nothing.                                                                *)
C9_TreeIsEmpty ==
    (/\ Len(log) > 0
     /\ Last.op \in {"get_first", "get_last", "without_first",
                      "without_last"}) =>
        IF is_empty(objs[Last.self]) THEN Last.raised = "TreeIsEmpty"
        ELSE Last.raised = ""

C9_Witness ==
    /\ Called("without_last")
    /\ is_empty(objs[Last.self])
    /\ Last.raised = "TreeIsEmpty"

Contains(xs, v) == \E k \in 1..Len(xs) : xs[k] = v

(* in the calls made and the trees held: of two pushes of different        *)
(* elements, neither of them in the tree, onto one tree, the tree each     *)
(* returned lacks the element of the other *)
Isolated(calls, trees) ==
    \A a, b \in 1..Len(calls) :
        (/\ calls[a].op \in {"add_first", "add_last"}
         /\ calls[b].op \in {"add_first", "add_last"}
         /\ calls[a].self = calls[b].self
         /\ calls[a].item # calls[b].item
         /\ calls[a].raised = ""
         /\ ~Contains(Items(trees[calls[a].self]), calls[b].item)) =>
            ~Contains(Items(trees[calls[a].rets[1]]), calls[b].item)

ProvidedMeasures == {MeasureItemCount, MeasureLastItem, MeasureMinMax}

(* the values measure m hands to its operator: what convert returns for    *)
(* an element and what operator returns for two of those *)
Converted(m) == {convert(m, PyInt(v)) : v \in 1..MaxValue}

Combined(m) == {operator(m, a, b) : a, b \in Converted(m)}

CompoundConverted(measures) ==
    {CompoundMeasure_convert(measures, PyInt(v)) : v \in 1..MaxValue}

CompoundCombined(measures) ==
    {CompoundMeasure_operator(measures, a, b) :
         a, b \in CompoundConverted(measures)}

(* C11: every provided measure satisfies the identity law: for the measure *)
(* in use, and for the CompoundMeasure of it with any provided measure,    *)
(* operator(identity, a) and operator(a, identity) are a for every a that  *)
(* convert or operator returns.                                            *)
C11_IdentityLaw ==
    measure \in ProvidedMeasures =>
        /\ \A a \in Converted(measure) \cup Combined(measure) :
               /\ operator(measure, identity(measure), a) = a
               /\ operator(measure, a, identity(measure)) = a
        /\ \A other \in ProvidedMeasures :
               LET measures == <<measure, other>>
                   e == CompoundMeasure_identity(measures)
               IN \A a \in CompoundConverted(measures)
                           \cup CompoundCombined(measures) :
                      /\ CompoundMeasure_operator(measures, e, a) = a
                      /\ CompoundMeasure_operator(measures, a, e) = a

(* C12: with the class Measure itself, the first operation that needs the  *)
(* measure, to_tree, raises NotImplementedError.                           *)
C12_BaseMeasureUnimplemented ==
    (measure = Measure /\ Called("to_tree")) =>
        Last.raised = "NotImplementedError"

(* xs without its last element *)
Front(xs) == SubSeq(xs, 1, Len(xs) - 1)

PackSizes(n) ==
    CASE n = 2 -> <<2>>
      [] n = 3 -> <<3>>
      [] n = 4 -> <<2, 2>>
      [] n = 5 -> <<3, 2>>
      [] n = 6 -> <<3, 3>>
      [] n = 7 -> <<3, 2, 2>>
      [] n = 8 -> <<3, 3, 2>>
      [] OTHER -> <<>>

(* spine with Nodes of the given sizes, cut from the front of middle,      *)
(* pushed onto its end in order *)
RECURSIVE PushNodes(_, _, _, _)
PushNodes(spine, m, middle, sizes) ==
    IF sizes = <<>> THEN spine
    ELSE PushNodes(add_last(spine, Node(m, SubSeq(middle, 1, sizes[1]))), m,
                   SubSeq(middle, sizes[1] + 1, Len(middle)), Tail(sizes))

(* c is a.append(b) as C14 describes it, and so is the append of the       *)
(* spines inside it, at every level *)
RECURSIVE AppendPacks(_, _, _)
AppendPacks(a, b, c) ==
    (a.type = "Deep" /\ b.type = "Deep") =>
        LET middle == a.right.values \o b.left.values
            pushed == PushNodes(a.spine, a.measure, middle,
                                PackSizes(Len(middle)))
        IN /\ Len(middle) \in 2..8
           /\ c.type = "Deep"
           /\ c.left = a.left
           /\ c.right = b.right
           /\ c.spine = append(pushed, b.spine)
           /\ AppendPacks(pushed, b.spine, c.spine)

(* every element of every spine of tree is a Node of 2 or 3 children *)
RECURSIVE NodesLegal(_)
NodesLegal(tree) ==
    tree.type = "Deep" =>
        /\ LET nodes == Items(tree.spine)
           IN \A k \in 1..Len(nodes) :
                  nodes[k].type = "Node" /\ Len(nodes[k].values) \in {2, 3}
        /\ NodesLegal(tree.spine)

(* C14: for Deep trees a and b, a.append(b) is the Deep tree of a.left,    *)
(* of a's spine with the middle elements (a.right then b.left, 2 to 8 of   *)
(* them) pushed onto its end as Nodes of sizes [2], [3], [2,2], [3,2],     *)
(* [3,3], [3,2,2], [3,3,2] and then appended with b's spine, and of        *)
(* b.right; no Node of another arity than 2 or 3 is built at any level.    *)
C14_AppendPacksMiddle ==
    (/\ Called("append")
     /\ objs[Last.self].type = "Deep"
     /\ objs[Last.other].type = "Deep") =>
        /\ Last.raised = ""
        /\ AppendPacks(objs[Last.self], objs[Last.other], objs[Last.rets[1]])
        /\ NodesLegal(objs[Last.rets[1]])

(* eight middle elements packed as [3,3,2], and b's spine Deep, so that    *)
(* the spines are appended by the same rule one level down *)
C14_Witness ==
    /\ Called("append")
    /\ Last.raised = ""
    /\ objs[Last.self].type = "Deep"
    /\ objs[Last.other].type = "Deep"
    /\ Len(objs[Last.self].right.values) = 4
    /\ Len(objs[Last.other].left.values) = 4
    /\ objs[Last.other].spine.type = "Deep"
    /\ objs[Last.rets[1]].spine.type = "Deep"
    /\ AppendPacks(objs[Last.self], objs[Last.other], objs[Last.rets[1]])

(* the spine branch of Deep.partition_with is taken on tree *)
SpineBranchTaken(tree, predicate, initial_annotation) ==
    /\ tree.type = "Deep"
    /\ LET left_annotation == operator(tree.measure, initial_annotation,
                                       tree.left.annotation)
       IN /\ ~Pred(predicate, left_annotation)
          /\ Pred(predicate, operator(tree.measure, left_annotation,
                                      tree.spine.annotation))

(* how many levels down the partition of tree takes the spine branch *)
RECURSIVE SpineBranchDepth(_, _, _)
SpineBranchDepth(tree, predicate, initial_annotation) ==
    IF SpineBranchTaken(tree, predicate, initial_annotation)
    THEN 1 + SpineBranchDepth(tree.spine, predicate,
                              operator(tree.measure, initial_annotation,
                                       tree.left.annotation))
    ELSE 0

(* wherever the partition of tree takes the spine branch, at this level    *)
(* and below, the partition of the spine has a right half that is not      *)
(* empty, and its first Node is extracted and removed without an error *)
RECURSIVE SpineBranchSafe(_, _, _)
SpineBranchSafe(tree, predicate, initial_annotation) ==
    SpineBranchTaken(tree, predicate, initial_annotation) =>
        LET left_annotation == operator(tree.measure, initial_annotation,
                                        tree.left.annotation)
            halves == partition_with(tree.spine, predicate, left_annotation)
        IN /\ ~Raised(halves)
           /\ ~is_empty(halves.items[2])
           /\ ~Raised(get_first(halves.items[2]))
           /\ ~Raised(without_first(halves.items[2]))
           /\ SpineBranchSafe(tree.spine, predicate, left_annotation)

(* C15: under a lawful measure and for any predicate, monotonic or not,    *)
(* whenever Deep.partition_with takes the spine branch, at any nesting     *)
(* level, the partition of the spine returns a right half that is not      *)
(* empty, so get_first and without_first on it do not raise TreeIsEmpty,   *)
(* and neither does the partition.                                         *)
C15_SpineBranchRightHalf ==
    (measure \in LawfulMeasures /\ Called("partition")) =>
        /\ SpineBranchSafe(objs[Last.self], Last.predicate,
                           identity(measure))
        /\ Last.raised # "TreeIsEmpty"

(* the spine branch taken at two levels, for a predicate that is not       *)
(* monotonic *)
C15_Witness ==
    /\ measure \in LawfulMeasures
    /\ Called("partition")
    /\ Last.predicate.kind = "even"
    /\ SpineBranchDepth(objs[Last.self], Last.predicate,
                        identity(measure)) >= 2
    /\ Last.raised = ""
    /\ ~is_empty(objs[Last.rets[2]])

(* item is an element of nesting level d: a value the caller stored when   *)
(* d is 0, and otherwise a Node of 2 or 3 elements of level d - 1 *)
RECURSIVE AtDepth(_, _)
AtDepth(item, d) ==
    IF d = 0 THEN item.type = "int"
    ELSE /\ item.type = "Node"
         /\ Len(item.values) \in {2, 3}
         /\ \A k \in 1..Len(item.values) : AtDepth(item.values[k], d - 1)

(* the class of a tree that holds n elements *)
ClassOf(n) == IF n = 0 THEN "Empty" ELSE IF n = 1 THEN "Single" ELSE "Deep"

(* tree, a tree of elements of nesting level d, is well formed *)
RECURSIVE WellFormed(_, _)
WellFormed(tree, d) ==
    /\ LET traversal == value_iterator(tree)
       IN /\ traversal.raised = ""
          /\ tree.type = ClassOf(Len(traversal.values))
          /\ \A k \in 1..Len(traversal.values) :
                 AtDepth(traversal.values[k], d)
    /\ tree.type = "Single" => AtDepth(tree.item, d)
    /\ tree.type = "Deep" =>
           /\ tree.left.type = "Digit"
           /\ tree.right.type = "Digit"
           /\ Len(tree.left.values) \in 1..4
           /\ Len(tree.right.values) \in 1..4
           /\ \A k \in 1..Len(tree.left.values) :
                  AtDepth(tree.left.values[k], d)
           /\ \A k \in 1..Len(tree.right.values) :
                  AtDepth(tree.right.values[k], d)
           /\ WellFormed(tree.spine, d + 1)

(* C16: every tree the caller gets from the empty tree by add_first,       *)
(* add_last, without_first, without_last, append, prepend and partition    *)
(* (looked at in the state in which the caller gets it)                    *)
(* is Empty iff it holds no element, Single iff one, Deep iff two or more; *)
(* the digits of a Deep hold 1 to 4 elements; the elements of a spine at   *)
(* nesting level d are Nodes of 2 or 3 children, uniformly d deep; and no  *)
(* call raises the arity error of Digit and Node.                          *)
C16_WellFormed ==
    /\ \A i \in NewTrees : i <= Len(objs) => WellFormed(objs[i], 0)
    /\ Len(log) > 0 => Last.raised # "Exception"

(* a partition that splits inside a Node two levels down, a removal that   *)
(* refills a digit from the spine, and every tree held well formed *)
C16_Witness ==
    /\ Len(log) = 2
    /\ log[1].op = "partition"
    /\ SpineBranchDepth(objs[log[1].self], log[1].predicate,
                        identity(measure)) >= 2
    /\ log[2].op = "without_first"
    /\ log[2].raised = ""
    /\ objs[log[2].self].type = "Deep"
    /\ Len(objs[log[2].self].left.values) = 1
    /\ objs[log[2].self].spine.type = "Deep"
    /\ objs[log[2].rets[1]].type = "Deep"
    /\ \A i \in 1..Len(objs) : WellFormed(objs[i], 0)

====
